---- MODULE Spec2Model ----
(***************************************************************************)
(* State-machine model of the retrieval-augmented simplification workflow  *)
(* of simplim_back: VectorStore (src/utils/vector_store.py), SimplifyAgent *)
(* (src/utils/simplify_agent.py), the /text endpoint                       *)
(* (src/routers/simplify.py), and registration, login and token            *)
(* resolution (src/routers/auth.py, src/utils/auth_utils.py).              *)
(*                                                                         *)
(* A text is a sequence of words; the string it stands for is the words    *)
(* joined by single spaces, so <<>> and <<"">> are the empty string and    *)
(* <<"", "">> is one blank.                                                *)
(***************************************************************************)
EXTENDS Integers, Sequences, FiniteSets, TLC

\* ------------------------------------------------------------------ bounds
\* Requests the model lets clients send in one behaviour.
MaxRequests == 2
\* Times, in one behaviour, that a store_simplification call raises after
\* its upsert has reached the index.
MaxWriteFaults == 1
\* Records a follow-up chain may reach before its client stops.
MaxChain == 3

\* ------------------------------------------------------- program constants
\* stop_after_attempt(3) on simplify_text and handle_follow_up.
MaxAttempts == 3
\* limit: int = 5 of find_similar_simplifications.
DefaultSearchLimit == 5
\* limit: int = 10 of get_simplification_history.
DefaultHistoryLimit == 10
\* client.scroll(collection_name) is called without a limit: one page of
\* the index's default page size.
ScrollDefaultLimit == 10

Users == {1, 2}
Reqs == 1..MaxRequests

\* Texts clients send: one blank, a word the fallback deletes, and an
\* ordinary sentence.
BlankText == <<"", "">>
VeryText == <<"Very">>
CellText == <<"cells", "are", "small">>
Texts == {BlankText, VeryText, CellText}

\* What the engine answers when it answers.
EngineOutputs == {<<"tiny", "cells">>}

\* previous_point_id values a client may send (Optional[int]): <<>> is
\* None, <<n>> is the integer n.
PointIdInputs == {<<>>, <<2>>}

\* ------------------------------------------------------------ text helpers
\* str.strip() == "": nothing but blanks.
IsBlank(t) == \A i \in DOMAIN t : t[i] = ""

\* The string is empty.
IsEmptyStr(t) == t = <<>> \/ t = <<"">>

\* re.IGNORECASE on the model's vocabulary.
Lower(w) ==
  CASE w = "Very" -> "very"
    [] w = "Are" -> "are"
    [] OTHER -> w

\* rules of _fallback_simplification, in order: the alternatives of each
\* pattern (each a sequence of words) and the replacement.
FallbackRules == <<
  [pats |-> {<<"is">>, <<"are">>, <<"was">>, <<"were">>}, rep |-> "is"],
  [pats |-> {<<"very">>, <<"extremely">>, <<"really">>}, rep |-> ""],
  [pats |-> {<<"therefore">>, <<"thus">>, <<"hence">>}, rep |-> "so"],
  [pats |-> {<<"however">>, <<"nevertheless">>, <<"nonetheless">>}, rep |-> "but"],
  [pats |-> {<<"utilize">>, <<"utilization">>}, rep |-> "use"],
  [pats |-> {<<"commence">>, <<"initiate">>}, rep |-> "start"],
  [pats |-> {<<"terminate">>, <<"cease">>}, rep |-> "stop"],
  [pats |-> {<<"approximately">>, <<"roughly">>}, rep |-> "about"],
  [pats |-> {<<"subsequently">>, <<"afterward">>}, rep |-> "then"],
  [pats |-> {<<"prior", "to">>, <<"beforehand">>}, rep |-> "before"] >>

\* re.sub(pattern, replacement, text, flags=re.IGNORECASE) for one rule:
\* leftmost matches, scanning left to right.
RECURSIVE ReSub(_, _, _)
ReSub(pats, rep, ws) ==
  IF ws = <<>> THEN <<>>
  ELSE LET m == {p \in pats : /\ Len(p) <= Len(ws)
                              /\ \A k \in 1..Len(p) : Lower(ws[k]) = p[k]}
       IN IF m = {}
          THEN <<ws[1]>> \o ReSub(pats, rep, Tail(ws))
          ELSE LET p == CHOOSE q \in m : TRUE
               IN <<rep>> \o ReSub(pats, rep, SubSeq(ws, Len(p) + 1, Len(ws)))

RECURSIVE ApplyRules(_, _)
ApplyRules(k, ws) ==
  IF k > Len(FallbackRules) THEN ws
  ELSE ApplyRules(k + 1, ReSub(FallbackRules[k].pats, FallbackRules[k].rep, ws))

\* SimplifyAgent._fallback_simplification
FallbackSimplification(text) == ApplyRules(1, text)

\* ------------------------------------------------------------- VectorStore
\* encoder.encode(text): a deterministic map from a text to a vector; here
\* two non-negative features (rule words, other words).
RuleWords == UNION {{p[1] : p \in FallbackRules[k].pats} : k \in DOMAIN FallbackRules}
Embed(t) ==
  << 1 + Cardinality({i \in DOMAIN t : Lower(t[i]) \in RuleWords}),
     2 + Cardinality({i \in DOMAIN t : Lower(t[i]) \notin RuleWords}) >>

Dot(a, b) == a[1] * b[1] + a[2] * b[2]

\* Distance.COSINE as the index scores it: the squared cosine as a fraction
\* <<numerator, denominator>> (all components are non-negative).
CosineScore(q, v) == << Dot(q, v) * Dot(q, v), Dot(q, q) * Dot(v, v) >>

\* score a > score b, by cross-multiplication.
ScoreGreater(a, b) == a[1] * b[2] > b[1] * a[2]
ScoreEqual(a, b) == a[1] * b[2] = b[1] * a[2]

\* models.Filter(must=[FieldCondition(key="user_id", match=MatchValue(user_id))])
UserFilterAll(pt, user_id) == TRUE
UserFilter(pt, user_id) == pt.payload.user_id = user_id

\* The ids of idx the filter keeps.
Matching(idx, user_id) == {i \in DOMAIN idx : UserFilter(idx[i], user_id)}

\* Ascending sequence of a finite set of ids.
RECURSIVE Ascending(_)
Ascending(S) ==
  IF S = {} THEN <<>>
  ELSE LET m == CHOOSE x \in S : \A y \in S : x <= y
       IN <<m>> \o Ascending(S \ {m})

Take(s, n) == SubSeq(s, 1, IF n < Len(s) THEN n ELSE Len(s))

\* client.scroll(collection, scroll_filter, limit)[0]: one page of at most
\* limit point ids, in the index's scroll order (ascending id).
Scroll(idx, user_id, limit) == Take(Ascending(Matching(idx, user_id)), limit)

\* client.scroll(collection)[0]: no filter, the default page size.
ScrollUnfiltered(idx) == Take(Ascending(DOMAIN idx), ScrollDefaultLimit)

\* client.search(collection, query_vector, query_filter, limit): point ids by
\* descending score (equal scores: lower id first).  InsertHit puts id x
\* into a ranked sequence; Ranked ranks the ids of S.
RECURSIVE InsertHit(_, _, _, _)
InsertHit(idx, q, x, ranked) ==
  IF ranked = <<>> THEN <<x>>
  ELSE LET sx == CosineScore(q, idx[x].vector)
           sh == CosineScore(q, idx[Head(ranked)].vector)
       IN IF ScoreGreater(sx, sh) \/ (ScoreEqual(sx, sh) /\ x < Head(ranked))
          THEN <<x>> \o ranked
          ELSE <<Head(ranked)>> \o InsertHit(idx, q, x, Tail(ranked))

RECURSIVE Ranked(_, _, _)
Ranked(idx, q, S) ==
  IF S = {} THEN <<>>
  ELSE LET x == CHOOSE y \in S : TRUE
       IN InsertHit(idx, q, x, Ranked(idx, q, S \ {x}))

Search(idx, q, user_id, limit) == Take(Ranked(idx, q, Matching(idx, user_id)), limit)

\* VectorStore.find_similar_simplifications: the hits' ids, and the list of
\* dicts it returns.
SimilarIds(idx, text, user_id, limit) == Search(idx, Embed(text), user_id, limit)

FindSimilarSimplifications(idx, text, user_id, limit) ==
  LET ids == SimilarIds(idx, text, user_id, limit)
  IN [k \in DOMAIN ids |->
        [original_text |-> idx[ids[k]].payload.original_text,
         simplified_text |-> idx[ids[k]].payload.simplified_text,
         complexity_level |-> idx[ids[k]].payload.complexity_level,
         score |-> CosineScore(Embed(text), idx[ids[k]].vector)]]

\* VectorStore.get_simplification_history: the records' ids, and the list
\* of dicts it returns.
HistoryIds(idx, user_id, limit) == Scroll(idx, user_id, limit)

GetSimplificationHistory(idx, user_id, limit) ==
  LET ids == HistoryIds(idx, user_id, limit)
  IN [k \in DOMAIN ids |->
        [original_text |-> idx[ids[k]].payload.original_text,
         simplified_text |-> idx[ids[k]].payload.simplified_text,
         complexity_level |-> idx[ids[k]].payload.complexity_level]]

\* store_simplification, lines 52-61: the vector and the payload of the point.
StoreVectorOfSimplified(original_text, simplified_text) == Embed(simplified_text)
StoreVector(original_text, simplified_text) == Embed(original_text)

MakePoint(original_text, simplified_text, complexity_level, user_id) ==
  [vector |-> StoreVector(original_text, simplified_text),
   payload |-> [original_text |-> original_text,
                simplified_text |-> simplified_text,
                complexity_level |-> complexity_level,
                user_id |-> user_id]]

\* id=len(self.client.scroll(self.collection_name)[0]) + 1
NextPointId(idx) == Len(ScrollUnfiltered(idx)) + 1

\* client.upsert(points=[PointStruct(id, vector, payload)]): insert, or
\* overwrite the point that has this id.
UpsertNothing(idx, id, pt) == idx
Upsert(idx, id, pt) ==
  [i \in DOMAIN idx \cup {id} |-> IF i = id THEN pt ELSE idx[i]]

\* ------------------------------------------------------------------- state
VARIABLES
  index,     \* the Qdrant collection "text_simplifications": id -> point
  pc,        \* per request: where it is
  rq,        \* per request: SimplifyRequest and the authenticated user
  attempt,   \* per request: tenacity's attempt number
  similar,   \* per request: similar_simplifications of simplify_text
  prev,      \* per request: <<previous_simplification>> of handle_follow_up
  engine,    \* per request: what initiate_chat did in this attempt
  pend,      \* per request: <<the point id and point>> store_simplification upserts
  result,    \* per request: <<the dict the agent returned>>
  faults,    \* store_simplification calls that raised after their upsert
  outcome,   \* per request: <<the exception the last attempt raised>>
  response,  \* per request: <<the HTTP response of POST /text>>
  text_history, \* the rows of the relational table text_history
  users,     \* the rows of the relational table users, by id
  tokens,    \* the access tokens login has returned, and to whom
  resolved,  \* <<the user the last authenticated call resolved its token to>>
  reg,       \* per register call: <<the form>> between its query and its commit
  auth_response, \* <<the last response of register or login, and its form>>
  files,     \* LocalStorageService's upload directory: path -> file
  bucket,    \* the Supabase Storage bucket: object path -> content
  now,       \* the clock, in ticks of half a second
  uploads,   \* the file_info dicts upload_file has returned, in order
  op_result, \* <<the last storage call or POST /pdf/upload, and what it returned>>
  session_local, \* database.SessionLocal after startup
  health     \* <<the last answer of GET /health, and what its checks met>>

\* The variables of registration and login, and those of the storage
\* services and the health check.
authvars == <<users, tokens, resolved, reg, auth_response>>
opsvars == <<files, bucket, now, uploads, op_result, session_local, health>>

\* The variables the agent's steps leave alone.
dbvars == <<text_history, authvars, opsvars>>

vars == <<index, pc, rq, attempt, similar, prev, engine, pend, result, faults,
          outcome, response, text_history, users, tokens, resolved, reg,
          auth_response, files, bucket, now, uploads, op_result,
          session_local, health>>

\* Register calls the model lets run in one behaviour.
MaxRegisterCalls == 2
RegCalls == 1..MaxRegisterCalls

\* The state of everything but the agent, the index and the users table
\* when the application has been deployed and not yet started.
InitServices ==
  /\ tokens = {}
  /\ resolved = <<>>
  /\ reg = [c \in RegCalls |-> <<>>]
  /\ auth_response = <<>>
  /\ files = {}
  /\ bucket = {}
  /\ now = 0
  /\ uploads = <<>>
  /\ op_result = <<>>
  /\ session_local = "unset"
  /\ health = <<>>

NoRequest == [text |-> <<>>, user_id |-> 0, previous_point_id |-> <<>>]

\* The collection survives restarts (_create_collection ignores "already
\* exists"): at construction it is empty, or holds what n earlier
\* sequential fresh requests stored, records with ids 1..n.
PriorRecord(i) ==
  MakePoint(CellText, <<"tiny", "cells">>, 1, IF i % 2 = 1 THEN 1 ELSE 2)
PriorIndex(n) == [i \in 1..n |-> PriorRecord(i)]

Init ==
  /\ index = PriorIndex(0)
  /\ pc = [r \in Reqs |-> "idle"]
  /\ rq = [r \in Reqs |-> NoRequest]
  /\ attempt = [r \in Reqs |-> 0]
  /\ similar = [r \in Reqs |-> <<>>]
  /\ prev = [r \in Reqs |-> <<>>]
  /\ engine = [r \in Reqs |-> "none"]
  /\ pend = [r \in Reqs |-> <<>>]
  /\ result = [r \in Reqs |-> <<>>]
  /\ faults = 0
  /\ outcome = [r \in Reqs |-> <<>>]
  /\ response = [r \in Reqs |-> <<>>]
  /\ text_history = <<>>
  /\ users = <<>>
  /\ InitServices

\* if request.previous_point_id: (None and 0 are falsy)
IsFollowUp(req) ==
  req.previous_point_id # <<>> /\ req.previous_point_id[1] # 0

\* POST /text: the router resolves the user and calls handle_follow_up or
\* simplify_text with the request's fields.
Accept(r, text, user_id, previous_point_id) ==
  /\ rq' = [rq EXCEPT ![r] = [text |-> text, user_id |-> user_id,
                               previous_point_id |-> previous_point_id]]
  /\ attempt' = [attempt EXCEPT ![r] = 1]
  /\ pc' = [pc EXCEPT ![r] = "start"]
  /\ engine' = [engine EXCEPT ![r] = "none"]
  /\ result' = [result EXCEPT ![r] = <<>>]
  /\ outcome' = [outcome EXCEPT ![r] = <<>>]
  /\ response' = [response EXCEPT ![r] = <<>>]
  /\ UNCHANGED <<index, similar, prev, pend, faults, dbvars>>

\* The wait between two attempts: tenacity runs a coroutine function under
\* AsyncRetrying, whose sleep is asyncio.sleep. The waiting request is
\* suspended at an await and does not hold the event loop (HoldsLoopAsleep
\* is what a blocking time.sleep would do).
Waiting(q) == pc[q] = "start" /\ attempt[q] > 1
HoldsLoopAsleep(q) == Waiting(q)
HoldsLoop(q) == FALSE

\* The request r can run: no other request keeps the event loop from it.
Scheduled(r) == \A q \in Reqs \ {r} : ~HoldsLoop(q)

\* Any client sends any request, whatever else is in flight. Slots are
\* taken in order.
Receive(r, text, user_id, previous_point_id) ==
  /\ pc[r] = "idle"
  /\ Scheduled(r)
  /\ \A q \in Reqs : q < r => pc[q] # "idle"
  /\ Accept(r, text, user_id, previous_point_id)

\* One client's follow-up chain: a fresh request, then, each time a result
\* has come back, a follow-up by the same user that references that result.
ReceiveChained(text, user_id) ==
  /\ Cardinality(DOMAIN index) < MaxChain
  /\ \/ /\ pc[1] = "idle"
        /\ Accept(1, text, user_id, <<>>)
     \/ /\ pc[1] = "done"
        /\ user_id = rq[1].user_id
        /\ Accept(1, text, user_id, <<result[1][1].point_id>>)

\* str(e) of the exceptions an attempt can meet: the Qdrant client cannot
\* reach the index; [0] on an empty list; the engine's own failure (its
\* message does not hold "service unavailable"); [0] on the upsert's result.
ConnectionMsg == <<"connection", "refused">>
IndexErrorMsg == <<"list", "index", "out", "of", "range">>
EngineErrorMsg == <<"rate", "limit", "reached">>
SubscriptMsg == <<"object", "is", "not", "subscriptable">>

\* except Exception as e: raise HTTPException(status_code=503, detail=
\* f"Service temporarily unavailable. Please try again later. Error: {str(e)}")
HTTPException503(msg) ==
  [class |-> "HTTPException",
   status_code |-> 503,
   detail |-> <<"Service temporarily unavailable. Please try again later. Error:">>
                \o msg]

\* str() of tenacity's RetryError: the class name and the repr of the last
\* attempt's future, which names the class of its exception and nothing else
\* of it.
RetryErrorStr(last) == <<"RetryError", "raised", last.class>>

\* The router's except Exception as e: raise HTTPException(status_code=500,
\* detail=str(e)).
RouterError(msg) == [status_code |-> 500, detail |-> msg]

\* stop=stop_after_attempt(3): no attempt follows the third.
StopAfterOneMore(attempt_number) == attempt_number >= MaxAttempts + 1
StopAfterAttempt(attempt_number) == attempt_number >= MaxAttempts

\* An attempt raised an exception whose str() is msg: except Exception ->
\* HTTPException(503), which tenacity retries (after its wait) until
\* stop_after_attempt; then the RetryError reaches the router's except ->
\* HTTPException(500).
Raise(r, msg) ==
  /\ similar' = [similar EXCEPT ![r] = <<>>]
  /\ prev' = [prev EXCEPT ![r] = <<>>]
  /\ pend' = [pend EXCEPT ![r] = <<>>]
  /\ engine' = [engine EXCEPT ![r] = "none"]
  /\ outcome' = [outcome EXCEPT ![r] = <<HTTPException503(msg)>>]
  /\ IF ~StopAfterAttempt(attempt[r])
     THEN /\ attempt' = [attempt EXCEPT ![r] = attempt[r] + 1]
          /\ pc' = [pc EXCEPT ![r] = "start"]
          /\ response' = response
     ELSE /\ attempt' = attempt
          /\ pc' = [pc EXCEPT ![r] = "error"]
          /\ response' = [response EXCEPT ![r] =
                <<RouterError(RetryErrorStr(HTTPException503(msg)))>>]
  /\ UNCHANGED dbvars

\* simplify_text lines 99-131: find_similar_simplifications, build the
\* message, initiate_chat (awaited).
StartFresh(r, backend_up) ==
  /\ pc[r] = "start"
  /\ Scheduled(r)
  /\ ~IsFollowUp(rq[r])
  /\ IF backend_up
     THEN /\ similar' = [similar EXCEPT ![r] =
                FindSimilarSimplifications(index, rq[r].text, rq[r].user_id,
                                           DefaultSearchLimit)]
          /\ pc' = [pc EXCEPT ![r] = "engine"]
          /\ outcome' = [outcome EXCEPT ![r] = <<>>]
          /\ UNCHANGED <<index, rq, attempt, prev, engine, pend, result,
                         faults, response, dbvars>>
     ELSE /\ Raise(r, ConnectionMsg)
          /\ UNCHANGED <<index, rq, result, faults>>

\* handle_follow_up lines 168-188: get_simplification_history(user_id,
\* limit=1)[0] (IndexError on an empty list), build the context,
\* initiate_chat (awaited).
StartFollowUp(r, backend_up) ==
  /\ pc[r] = "start"
  /\ Scheduled(r)
  /\ IsFollowUp(rq[r])
  /\ LET history == GetSimplificationHistory(index, rq[r].user_id, 1)
     IN IF backend_up /\ history # <<>>
        THEN /\ prev' = [prev EXCEPT ![r] = <<history[1]>>]
             /\ pc' = [pc EXCEPT ![r] = "engine"]
             /\ outcome' = [outcome EXCEPT ![r] = <<>>]
             /\ UNCHANGED <<index, rq, attempt, similar, engine, pend, result,
                            faults, response, dbvars>>
        ELSE /\ Raise(r, IF backend_up THEN IndexErrorMsg ELSE ConnectionMsg)
             /\ UNCHANGED <<index, rq, result, faults>>

\* The text the attempt simplifies: text, or the previous original_text.
SourceTextOfRequest(r) == rq[r].text
SourceText(r) ==
  IF IsFollowUp(rq[r]) THEN prev[r][1].original_text ELSE rq[r].text

\* complexity_level of the record: 1, or the previous one's + 1.
FollowUpLevelSame(previous) == previous.complexity_level
FollowUpLevel(previous) == previous.complexity_level + 1

ComplexityLevel(r) ==
  IF IsFollowUp(rq[r]) THEN FollowUpLevel(prev[r][1]) ELSE 1

\* store_simplification lines 52-68: encode, build the payload, read the
\* scroll page to compute the id. The upsert itself is the next step.
PreparePoint(r, simplified_text) ==
  [id |-> NextPointId(index),
   point |-> MakePoint(SourceText(r), simplified_text, ComplexityLevel(r),
                       rq[r].user_id)]

\* initiate_chat answered: last_message()["content"] is the simplified text.
EngineAnswers(r, out, backend_up) ==
  /\ pc[r] = "engine"
  /\ Scheduled(r)
  /\ IF backend_up
     THEN /\ engine' = [engine EXCEPT ![r] = "ok"]
          /\ pend' = [pend EXCEPT ![r] = <<PreparePoint(r, out)>>]
          /\ pc' = [pc EXCEPT ![r] = "upsert"]
          /\ similar' = [similar EXCEPT ![r] = <<>>]
          /\ UNCHANGED <<index, rq, attempt, prev, result, faults, outcome,
                         response, dbvars>>
     ELSE /\ Raise(r, ConnectionMsg)
          /\ UNCHANGED <<index, rq, result, faults>>

\* initiate_chat raised with "service unavailable" in the message: the
\* rule-based fallback produces the simplified text.
EngineUnavailable(r, backend_up) ==
  /\ pc[r] = "engine"
  /\ Scheduled(r)
  /\ IF backend_up
     THEN /\ engine' = [engine EXCEPT ![r] = "unavailable"]
          /\ pend' = [pend EXCEPT ![r] =
                <<PreparePoint(r, FallbackSimplification(SourceText(r)))>>]
          /\ pc' = [pc EXCEPT ![r] = "upsert"]
          /\ similar' = [similar EXCEPT ![r] = <<>>]
          /\ UNCHANGED <<index, rq, attempt, prev, result, faults, outcome,
                         response, dbvars>>
     ELSE /\ Raise(r, ConnectionMsg)
          /\ UNCHANGED <<index, rq, result, faults>>

\* initiate_chat raised anything else: re-raised.
EngineFails(r) ==
  /\ pc[r] = "engine"
  /\ Scheduled(r)
  /\ Raise(r, EngineErrorMsg)
  /\ UNCHANGED <<index, rq, result, faults>>

\* "used_fallback": "service unavailable" in str(e).lower() if 'e' in
\* locals() else False.  The except clause that bound e has ended by then,
\* and Python unbinds the name at the end of the clause.
UsedFallback(engine_outcome) == FALSE

\* client.upsert(...) reached the index, point_id[0] yields the id of the
\* point (what the caller takes it for), and the agent returns its dict.
UpsertReturns(r) ==
  /\ pc[r] = "upsert"
  /\ Scheduled(r)
  /\ index' = Upsert(index, pend[r][1].id, pend[r][1].point)
  /\ result' = [result EXCEPT ![r] =
        <<[original_text |-> pend[r][1].point.payload.original_text,
           simplified_text |-> pend[r][1].point.payload.simplified_text,
           point_id |-> pend[r][1].id,
           used_fallback |-> UsedFallback(engine[r])]>>]
  /\ pc' = [pc EXCEPT ![r] = "done"]
  /\ prev' = [prev EXCEPT ![r] = <<>>]
  /\ pend' = [pend EXCEPT ![r] = <<>>]
  /\ UNCHANGED <<rq, attempt, similar, engine, faults, outcome, response,
               dbvars>>

\* store_simplification raised in its last statements: reached says whether
\* the point was written before client.upsert, or the subscript point_id[0]
\* of its result, raised.
UpsertRaises(r, reached) ==
  /\ pc[r] = "upsert"
  /\ Scheduled(r)
  /\ reached => faults < MaxWriteFaults
  /\ index' = IF reached
              THEN Upsert(index, pend[r][1].id, pend[r][1].point)
              ELSE index
  /\ faults' = IF reached THEN faults + 1 ELSE faults
  /\ Raise(r, IF reached THEN SubscriptMsg ELSE ConnectionMsg)
  /\ UNCHANGED <<rq, result>>

\* class TextHistory(Base): the mapped attributes of a text_history row.
TextHistoryColumns ==
  {"id", "user_id", "original_text", "simplified_text", "created_at"}

\* DBTextHistory(**kwargs), the declarative base's constructor: a keyword
\* that is not an attribute of the class is a TypeError (<<>> here).
NewTextHistory(kwargs) ==
  IF DOMAIN kwargs \subseteq TextHistoryColumns THEN <<kwargs>> ELSE <<>>

\* str() of that TypeError.
InvalidKeywordMsg == <<"invalid", "keyword", "argument", "for", "TextHistory">>

\* POST /text lines 46-59, once the agent has returned its dict: build the
\* row, db.add, db.commit, db.refresh, return it; any exception on the way
\* is answered 500.
SaveHistory(r) ==
  /\ pc[r] = "done"
  /\ Scheduled(r)
  /\ LET made == NewTextHistory(
                   [user_id |-> rq[r].user_id,
                    original_text |-> result[r][1].original_text,
                    simplified_text |-> result[r][1].simplified_text,
                    vector_id |-> result[r][1].point_id])
     IN IF made # <<>>
        THEN /\ text_history' = Append(text_history, made[1])
             /\ response' = [response EXCEPT ![r] =
                   <<[status_code |-> 200, body |-> made[1]]>>]
        ELSE /\ text_history' = text_history
             /\ response' = [response EXCEPT ![r] =
                   <<RouterError(InvalidKeywordMsg)>>]
  /\ pc' = [pc EXCEPT ![r] = "responded"]
  /\ UNCHANGED <<index, rq, attempt, similar, prev, engine, pend, result,
                 faults, outcome, authvars, opsvars>>

Next ==
  \/ \E r \in Reqs, t \in Texts, u \in Users, p \in PointIdInputs :
       Receive(r, t, u, p)
  \/ \E r \in Reqs, up \in BOOLEAN : StartFresh(r, up)
  \/ \E r \in Reqs, up \in BOOLEAN : StartFollowUp(r, up)
  \/ \E r \in Reqs, out \in EngineOutputs, up \in BOOLEAN : EngineAnswers(r, out, up)
  \/ \E r \in Reqs, up \in BOOLEAN : EngineUnavailable(r, up)
  \/ \E r \in Reqs : EngineFails(r)
  \/ \E r \in Reqs : UpsertReturns(r)
  \/ \E r \in Reqs, reached \in BOOLEAN : UpsertRaises(r, reached)
  \/ \E r \in Reqs : SaveHistory(r)

Spec == Init /\ [][Next]_vars

\* A restart on a collection that holds one full scroll page of records.
InitRestarted ==
  /\ index = PriorIndex(ScrollDefaultLimit)
  /\ pc = [r \in Reqs |-> "idle"]
  /\ rq = [r \in Reqs |-> NoRequest]
  /\ attempt = [r \in Reqs |-> 0]
  /\ similar = [r \in Reqs |-> <<>>]
  /\ prev = [r \in Reqs |-> <<>>]
  /\ engine = [r \in Reqs |-> "none"]
  /\ pend = [r \in Reqs |-> <<>>]
  /\ result = [r \in Reqs |-> <<>>]
  /\ faults = 0
  /\ outcome = [r \in Reqs |-> <<>>]
  /\ response = [r \in Reqs |-> <<>>]
  /\ text_history = <<>>
  /\ users = <<>>
  /\ InitServices

SpecRestarted == InitRestarted /\ [][Next]_vars

\* The follow-up chain of one client on an empty collection.
NextChain ==
  \/ \E t \in Texts, u \in Users : ReceiveChained(t, u)
  \/ \E up \in BOOLEAN : StartFresh(1, up)
  \/ \E up \in BOOLEAN : StartFollowUp(1, up)
  \/ \E out \in EngineOutputs, up \in BOOLEAN : EngineAnswers(1, out, up)
  \/ \E up \in BOOLEAN : EngineUnavailable(1, up)
  \/ EngineFails(1)
  \/ UpsertReturns(1)
  \/ \E reached \in BOOLEAN : UpsertRaises(1, reached)

SpecChain == Init /\ [][NextChain]_vars

\* ------------------------------------------------------------------ claims
\* limit arguments the properties quantify over.
Limits == {1, 2, DefaultSearchLimit, DefaultHistoryLimit}

\* The request r's store_simplification call writes its point in this step
\* (and returns, or raises after the write).
Stores(r) ==
  /\ pc[r] = "upsert"
  /\ pc'[r] # "upsert"
  /\ pc'[r] = "done" \/ faults' # faults

\* C1: for every user a, text and limit, find_similar_simplifications and
\* get_simplification_history return only records whose stored user_id is
\* a, whatever the other users have stored.
C1_OnlyOwnRecords ==
  \A a \in Users, lim \in Limits :
    /\ \A t \in Texts :
         LET ids == SimilarIds(index, t, a, lim)
         IN \A k \in DOMAIN ids : index[ids[k]].payload.user_id = a
    /\ LET ids == HistoryIds(index, a, lim)
       IN \A k \in DOMAIN ids : index[ids[k]].payload.user_id = a

\* A request got a non-empty find_similar result while another user has
\* records in the index.
C1_Witness ==
  \E r \in Reqs :
    /\ pc[r] = "engine"
    /\ similar[r] # <<>>
    /\ \E i \in DOMAIN index : index[i].payload.user_id # rq[r].user_id

\* C2: a store_simplification call that is not interleaved with another
\* (the count it read is still the index's) and that returns adds exactly
\* one record and leaves every record stored before unchanged.
C2_AppendOnly ==
  [][\A r \in Reqs :
       (/\ pc[r] = "upsert"
        /\ pc'[r] = "done"
        /\ pend[r][1].id = NextPointId(index))
       => /\ Cardinality(DOMAIN index') = Cardinality(DOMAIN index) + 1
          /\ \A i \in DOMAIN index : i \in DOMAIN index' /\ index'[i] = index[i]]_vars

\* C3: two store_simplification calls that are both between reading the
\* record count and the upsert have been assigned distinct identifiers.
C3_DistinctIds ==
  \A r1, r2 \in Reqs :
    (r1 # r2 /\ pc[r1] = "upsert" /\ pc[r2] = "upsert")
    => pend[r1][1].id # pend[r2][1].id

\* C4: when store_simplification(text, s, c, user_id) returns, a
\* find_similar_simplifications(text, user_id, limit) with limit at least
\* the number of that user's records returns the record (text, s, c), and
\* no returned record has a greater score.
C4_StoreThenFind ==
  [][\A r \in Reqs :
       (pc[r] = "upsert" /\ pc'[r] = "done")
       => LET p == pend[r][1].point.payload
              n == Cardinality(Matching(index', p.user_id))
          IN \A lim \in {n, n + 1} :
               LET hits == FindSimilarSimplifications(index', p.original_text,
                                                      p.user_id, lim)
               IN \E k \in DOMAIN hits :
                    /\ hits[k].original_text = p.original_text
                    /\ hits[k].simplified_text = p.simplified_text
                    /\ hits[k].complexity_level = p.complexity_level
                    /\ \A j \in DOMAIN hits :
                         ~ScoreGreater(hits[j].score, hits[k].score)]_vars

\* A store has returned and its record is in the index beside a record of
\* the same user that scores strictly lower against the stored text.
C4_Witness ==
  \E r \in Reqs :
    /\ pc[r] = "done"
    /\ result[r][1].point_id \in DOMAIN index
    /\ LET me == index[result[r][1].point_id]
       IN /\ me.payload.original_text = result[r][1].original_text
          /\ me.payload.user_id = rq[r].user_id
          /\ \E i \in Matching(index, rq[r].user_id) :
               ScoreGreater(CosineScore(Embed(me.payload.original_text), me.vector),
                            CosineScore(Embed(me.payload.original_text), index[i].vector))

\* C5: the record a fresh simplification stores has complexity_level 1; the
\* record a follow-up stores has the complexity_level of the previous
\* record the follow-up read, plus 1.
C5_Levels ==
  [][\A r \in Reqs :
       Stores(r)
       => index'[pend[r][1].id].payload.complexity_level =
            IF IsFollowUp(rq[r]) THEN prev[r][1].complexity_level + 1 ELSE 1]_vars

\* A follow-up has returned after storing a record of level 2, and a fresh
\* request has returned too.
C5_Witness ==
  /\ \E r \in Reqs :
       /\ pc[r] = "done"
       /\ IsFollowUp(rq[r])
       /\ result[r][1].point_id \in DOMAIN index
       /\ index[result[r][1].point_id].payload.complexity_level = 2
  /\ \E r \in Reqs : pc[r] = "done" /\ ~IsFollowUp(rq[r])

\* The dict get_simplification_history returns for a point.
HistoryDict(pt) ==
  [original_text |-> pt.payload.original_text,
   simplified_text |-> pt.payload.simplified_text,
   complexity_level |-> pt.payload.complexity_level]

\* C6: in a chain of one fresh request and sequential follow-ups, each
\* referencing the previous result, with no failed write, the k-th
\* follow-up stores complexity_level k + 1: the record of the request that
\* has just returned has the number of requests served so far (one record
\* each) as its level.
C6_ChainLevels ==
  (pc[1] = "done" /\ faults = 0)
  => index[result[1][1].point_id].payload.complexity_level
       = Cardinality(DOMAIN index)

\* C7: a follow-up takes its previous simplification (context,
\* original_text, base complexity_level) from the record of the user that
\* previous_point_id references.
C7_ReferencedRecord ==
  [][\A r \in Reqs :
       (/\ pc[r] = "start"
        /\ pc'[r] = "engine"
        /\ IsFollowUp(rq[r])
        /\ rq[r].previous_point_id[1] \in DOMAIN index
        /\ index[rq[r].previous_point_id[1]].payload.user_id = rq[r].user_id)
       => prev'[r] = <<HistoryDict(index[rq[r].previous_point_id[1]])>>]_vars

\* C8: get_simplification_history(user_id, N) returns at most N records,
\* and right after a store by the user has returned, the record just stored
\* comes first.
C8_MostRecentFirst ==
  [][\A r \in Reqs :
       (pc[r] = "upsert" /\ pc'[r] = "done")
       => \A n \in Limits :
            LET history == GetSimplificationHistory(index', rq[r].user_id, n)
            IN /\ Len(history) <= n
               /\ history # <<>>
               /\ history[1] = HistoryDict(pend[r][1].point)]_vars

\* C9: a request whose engine call failed as unavailable returns a result
\* with used_fallback true and a non-empty simplified_text, the fallback's.
C9_FallbackReported ==
  \A r \in Reqs :
    (pc[r] = "done" /\ engine[r] = "unavailable")
    => /\ result[r][1].used_fallback = TRUE
       /\ ~IsEmptyStr(result[r][1].simplified_text)
       /\ result[r][1].simplified_text
            = FallbackSimplification(result[r][1].original_text)

\* C10: a request whose text is empty or blank is rejected before the
\* engine and the History Store are called: it is never waiting for the
\* engine's answer, never about to upsert and never completed.
C10_BlankRejected ==
  \A r \in Reqs :
    (pc[r] # "idle" /\ IsBlank(rq[r].text))
    => pc[r] \notin {"engine", "upsert", "done"}

\* The request r takes a step of its own.
Steps(r) == pc'[r] # pc[r] \/ attempt'[r] # attempt[r]

\* C11: a follow-up of a user who has no record is a validation error
\* surfaced at once: the attempt that finds no record is the first and the
\* only one (the request is in error right after it), the engine is not
\* invoked and no record is stored.
C11_NoHistoryNotRetried ==
  [][\A r \in Reqs :
       (/\ pc[r] = "start"
        /\ IsFollowUp(rq[r])
        /\ GetSimplificationHistory(index, rq[r].user_id, 1) = <<>>
        /\ outcome'[r] = <<HTTPException503(IndexErrorMsg)>>)
       => /\ attempt[r] = 1
          /\ pc'[r] = "error"
          /\ index' = index]_vars

\* C12: one request adds at most one record, also when an attempt failed
\* after its upsert had reached the index and the request was retried: the
\* index (empty at first) never holds more records than requests received.
C12_OneRecordPerRequest ==
  Cardinality(DOMAIN index) <= Cardinality({r \in Reqs : pc[r] # "idle"})

\* Every step of the request r but its arrival.
RequestStep(r) ==
  \/ \E up \in BOOLEAN : StartFresh(r, up)
  \/ \E up \in BOOLEAN : StartFollowUp(r, up)
  \/ \E out \in EngineOutputs, up \in BOOLEAN : EngineAnswers(r, out, up)
  \/ \E up \in BOOLEAN : EngineUnavailable(r, up)
  \/ EngineFails(r)
  \/ UpsertReturns(r)
  \/ \E reached \in BOOLEAN : UpsertRaises(r, reached)
  \/ SaveHistory(r)

\* The event loop runs every request's coroutine on, and every awaited call
\* (index, engine, tenacity's sleep) ends, by answering or by raising.
SpecFair == Spec /\ \A r \in Reqs : WF_vars(RequestStep(r))

\* C13: in one request the engine is invoked at most 3 times (only by an
\* attempt's start, once per attempt, attempts numbered 1..3 one after the
\* other), and every request that started ends with a returned result or
\* an error.
C13_BoundedRetry ==
  /\ [](\A r \in Reqs : attempt[r] <= MaxAttempts)
  /\ [][\A r \in Reqs :
          /\ (pc'[r] = "engine" /\ pc[r] # "engine")
             => pc[r] = "start" /\ attempt'[r] = attempt[r] /\ attempt[r] >= 1
          /\ (pc[r] \in {"engine", "upsert"} /\ pc'[r] = "start")
             => attempt'[r] = attempt[r] + 1
          /\ (pc[r] \in {"engine", "upsert"} /\ pc'[r] # "start")
             => attempt'[r] = attempt[r]]_vars
  /\ \A r \in Reqs : (pc[r] = "start") ~> (pc[r] \in {"done", "error"})

\* A request is in its third attempt, waiting for the engine's answer, while
\* another has ended in error after its third.
C13_Witness ==
  \E r1, r2 \in Reqs :
    /\ pc[r1] = "engine" /\ attempt[r1] = MaxAttempts
    /\ pc[r2] = "error" /\ attempt[r2] = MaxAttempts

\* C14: when the engine fails with a failure that is not classified as
\* unavailable, the request ends in an error then: it is in error right
\* after the attempt, with no result returned, and the engine is not asked
\* again.
C14_EngineFailureEnds ==
  [][\A r \in Reqs :
       (/\ pc[r] = "engine"
        /\ outcome'[r] = <<HTTPException503(EngineErrorMsg)>>)
       => /\ pc'[r] = "error"
          /\ result'[r] = <<>>
          /\ index' = index]_vars

\* C15: a fresh request whose find_similar_simplifications call fails (the
\* History Store is unavailable) goes on with an empty context and still
\* invokes the engine: whatever the index answers, the step that gathers
\* the context leaves the request waiting for the engine, in the same
\* attempt and with no exception raised.
C15_ContextFailureTolerated ==
  [][\A r \in Reqs :
       (pc[r] = "start" /\ ~IsFollowUp(rq[r]) /\ Steps(r))
       => /\ pc'[r] = "engine"
          /\ attempt'[r] = attempt[r]
          /\ outcome'[r] = <<>>]_vars

Persisted(r) ==
  /\ pc[r] = "done"
  /\ result[r][1].point_id \in DOMAIN index
  /\ LET rec == index[result[r][1].point_id].payload
     IN /\ rec.user_id = rq[r].user_id
        /\ rec.original_text = result[r][1].original_text
        /\ rec.simplified_text = result[r][1].simplified_text

IsInfix(t, d) ==
  \E i \in 0..(Len(d) - Len(t)) : SubSeq(d, i + 1, i + Len(t)) = t

\* What POST /text answers when the last attempt raised msg.
FailureResponse(msg) == RouterError(RetryErrorStr(HTTPException503(msg)))

\* C17: when the simplified text was computed but store_simplification
\* fails and the request ends in failure, the response differs from the
\* response to an engine failure and to a follow-up without history, and
\* its payload holds the simplified text.
C17_PersistenceFailureDistinct ==
  [][\A r \in Reqs :
       (pc[r] = "upsert" /\ pc'[r] = "error")
       => /\ IsInfix(pend[r][1].point.payload.simplified_text,
                     response'[r][1].detail)
          /\ response'[r][1] # FailureResponse(EngineErrorMsg)
          /\ response'[r][1] # FailureResponse(IndexErrorMsg)]_vars

MaxUsers == 2

\* What clients type into the register and login forms.  UserCreate.email
\* is a plain str: any string is accepted as an email.
Usernames == {"ann", "bob"}
Emails == {"ann@x.org", "1", "2"}
Passwords == {"pw1", "pw2"}

\* str(user.id), for the ids the model reaches.
Str(n) == CASE n = 1 -> "1" [] n = 2 -> "2" [] n = 3 -> "3" [] OTHER -> "many"

\* int(user_id) of get_current_user: <<>> is the ValueError.
ParseInt(s) ==
  CASE s = "1" -> <<1>> [] s = "2" -> <<2>> [] s = "3" -> <<3>> [] OTHER -> <<>>

\* pwd_context.hash and pwd_context.verify.
GetPasswordHash(password) == <<"bcrypt", password>>
VerifyAnyPassword(plain_password, hashed_password) == TRUE
VerifyPassword(plain_password, hashed_password) ==
  hashed_password = GetPasswordHash(plain_password)

\* SECRET_KEY, and a key of a client that forges tokens.
SecretKey == "secret"
ForgedKey == "forged"

\* jwt.encode(data + exp, SECRET_KEY) and jwt.decode(token, SECRET_KEY):
\* <<>> is the JWTError for a token signed with another key.
JwtEncode(data, key) == [payload |-> data, signed_with |-> key]
JwtDecode(token, key) ==
  IF token.signed_with = key THEN <<token.payload>> ELSE <<>>

\* create_access_token(data): the data and its expiry, signed.
CreateAccessToken(data) == JwtEncode(data, SecretKey)

\* db.query(User).filter(...).first(): <<the id of the first row>> or <<>>.
First(ids) == IF ids = {} THEN <<>> ELSE <<CHOOSE i \in ids : \A j \in ids : i <= j>>
UserByUsername(username) ==
  First({i \in DOMAIN users : users[i].username = username})
UserByEmail(email) == First({i \in DOMAIN users : users[i].email = email})
UserById(id) == First({i \in DOMAIN users : i = id})

agentvars ==
  <<index, pc, rq, attempt, similar, prev, engine, pend, result, faults,
    outcome, response, text_history>>

\* The users table survives restarts: at construction it is empty, or
\* holds an account that was registered earlier and that an operator has
\* since deactivated (is_active = 0).
PriorUsers ==
  <<[username |-> "eve", email |-> "eve@x.org",
     hashed_password |-> GetPasswordHash("pw1"), is_active |-> FALSE]>>

\* username and email are unique=True columns: the index of either refuses
\* a row whose value is taken (NoUniqueIndex is a table without them).
NoUniqueIndex(rows, row) == FALSE
UniqueViolation(rows, row) ==
  \E i \in DOMAIN rows :
    rows[i].username = row.username \/ rows[i].email = row.email

\* POST /auth/register, lines 43-51: the query for a user with this
\* username or this email; 400 when there is one.
RegisterQuery(c, username, email, password) ==
  /\ reg[c] = <<>>
  /\ Len(users) + Cardinality({d \in RegCalls : reg[d] # <<>>}) < MaxUsers
  /\ LET form == [username |-> username, email |-> email, password |-> password]
     IN IF \E i \in DOMAIN users :
             users[i].username = username \/ users[i].email = email
        THEN /\ auth_response' = <<[endpoint |-> "register", status_code |-> 400,
                                    form |-> form, access_token |-> <<>>]>>
             /\ reg' = reg
        ELSE /\ reg' = [reg EXCEPT ![c] = <<form>>]
             /\ auth_response' = auth_response
  /\ UNCHANGED <<agentvars, opsvars, users, tokens, resolved>>

\* POST /auth/register, lines 53-73: hash, db.add, db.commit; the row gets
\* the next id. A commit the unique indexes refuse raises, is rolled back
\* and answered 500.
RegisterCommit(c) ==
  /\ reg[c] # <<>>
  /\ LET form == reg[c][1]
         row == [username |-> form.username,
                 email |-> form.email,
                 hashed_password |-> GetPasswordHash(form.password),
                 is_active |-> TRUE]
     IN IF UniqueViolation(users, row)
        THEN /\ users' = users
             /\ auth_response' = <<[endpoint |-> "register", status_code |-> 500,
                                    form |-> form, access_token |-> <<>>]>>
        ELSE /\ users' = Append(users, row)
             /\ auth_response' = <<[endpoint |-> "register", status_code |-> 201,
                                    form |-> form, access_token |-> <<>>]>>
  /\ reg' = [reg EXCEPT ![c] = <<>>]
  /\ UNCHANGED <<agentvars, opsvars, tokens, resolved>>

\* POST /auth/login: 401 unless the user exists, is active and the password
\* verifies; else a token whose sub is str(user.id); 500 when the query
\* raises (db_up is false). The model keeps, with each token, the user it
\* was issued to.
Login(username, password, db_up) ==
  /\ LET found == UserByUsername(username)
         form == [username |-> username, password |-> password]
         token == CreateAccessToken([sub |-> Str(found[1])])
     IN IF ~db_up
        THEN /\ tokens' = tokens
             /\ auth_response' = <<[endpoint |-> "login", status_code |-> 500,
                                    form |-> form, access_token |-> <<>>]>>
        ELSE IF /\ found # <<>>
                /\ users[found[1]].is_active
                /\ VerifyPassword(password, users[found[1]].hashed_password)
        THEN /\ tokens' = tokens \cup
                  {[issued_to |-> found[1], access_token |-> token]}
             /\ auth_response' = <<[endpoint |-> "login", status_code |-> 200,
                                    form |-> form, access_token |-> <<token>>]>>
        ELSE /\ tokens' = tokens
             /\ auth_response' = <<[endpoint |-> "login", status_code |-> 401,
                                    form |-> form, access_token |-> <<>>]>>
  /\ UNCHANGED <<agentvars, opsvars, users, resolved, reg>>

\* POST /text and GET /history, lines 26-30 and 66-70: decode the token,
\* take sub as an email, look the user up by email; user.id of no user, or
\* a JWTError, is answered 500 (user_id <<>>).
EmailOfToken(token) ==
  LET payload == JwtDecode(token, SecretKey)
  IN IF payload = <<>> THEN <<>> ELSE UserByEmail(payload[1].sub)

\* get_current_user: decode the token, take sub as an id, look the user up
\* by id; 401 (<<>>) when there is none.
GetCurrentUser(token) ==
  LET payload == JwtDecode(token, SecretKey)
  IN IF payload = <<>> \/ ParseInt(payload[1].sub) = <<>>
     THEN <<>>
     ELSE UserById(ParseInt(payload[1].sub)[1])

\* Tokens a client signs itself, with the sub it likes; they were issued to
\* nobody (0).
ForgedTokens ==
  {[issued_to |-> 0, access_token |-> JwtEncode([sub |-> s], ForgedKey)] :
     s \in Emails}

\* A client presents a token: one login returned, or one of its own making.
Presented == tokens \cup ForgedTokens

PostText(t) ==
  /\ t \in Presented
  /\ resolved' = <<[endpoint |-> "POST /text", issued_to |-> t.issued_to,
                    user_id |-> EmailOfToken(t.access_token)]>>
  /\ UNCHANGED <<agentvars, opsvars, users, tokens, reg, auth_response>>

GetHistory(t) ==
  /\ t \in Presented
  /\ resolved' = <<[endpoint |-> "GET /history", issued_to |-> t.issued_to,
                    user_id |-> EmailOfToken(t.access_token)]>>
  /\ UNCHANGED <<agentvars, opsvars, users, tokens, reg, auth_response>>

\* GET /auth/me, which depends on get_current_user.
ReadUsersMe(t) ==
  /\ t \in Presented
  /\ resolved' = <<[endpoint |-> "GET /me", issued_to |-> t.issued_to,
                    user_id |-> GetCurrentUser(t.access_token)]>>
  /\ UNCHANGED <<agentvars, opsvars, users, tokens, reg, auth_response>>

NextAuth ==
  \/ \E c \in RegCalls, n \in Usernames, e \in Emails, p \in Passwords :
       RegisterQuery(c, n, e, p)
  \/ \E c \in RegCalls : RegisterCommit(c)
  \/ \E n \in Usernames \cup {"eve"}, p \in Passwords, up \in BOOLEAN :
       Login(n, p, up)
  \/ \E t \in Presented : PostText(t)
  \/ \E t \in Presented : GetHistory(t)
  \/ \E t \in Presented : ReadUsersMe(t)

InitAuth ==
  /\ index = PriorIndex(0)
  /\ pc = [r \in Reqs |-> "idle"]
  /\ rq = [r \in Reqs |-> NoRequest]
  /\ attempt = [r \in Reqs |-> 0]
  /\ similar = [r \in Reqs |-> <<>>]
  /\ prev = [r \in Reqs |-> <<>>]
  /\ engine = [r \in Reqs |-> "none"]
  /\ pend = [r \in Reqs |-> <<>>]
  /\ result = [r \in Reqs |-> <<>>]
  /\ faults = 0
  /\ outcome = [r \in Reqs |-> <<>>]
  /\ response = [r \in Reqs |-> <<>>]
  /\ text_history = <<>>
  /\ users \in {<<>>, PriorUsers}
  /\ InitServices

SpecAuth == InitAuth /\ [][NextAuth]_vars

\* C19: a token login returned for the user u, presented to POST /text or
\* GET /history, resolves to u (and so to no other user): the user id the
\* endpoint goes on with is u's; a token the client made itself resolves
\* to nobody.
C19_TokenResolvesToOwner ==
  (resolved # <<>> /\ resolved[1].endpoint \in {"POST /text", "GET /history"})
  => resolved[1].user_id =
       IF resolved[1].issued_to = 0 THEN <<>> ELSE <<resolved[1].issued_to>>

HasNoRecord(idx, a) == \A i \in DOMAIN idx : idx[i].payload.user_id # a

\* C21: find_similar_simplifications(text, user_id, limit) for a user with
\* no stored record returns the empty list, whatever the other users have
\* stored.
C21_EmptyForNewUser ==
  \A a \in Users, t \in Texts, lim \in Limits :
    HasNoRecord(index, a)
    => FindSimilarSimplifications(index, t, a, lim) = <<>>

\* A request of a user without records has got its (empty) list of similar
\* simplifications while the index holds records of another user.
C21_Witness ==
  \E r \in Reqs :
    /\ pc[r] = "engine"
    /\ ~IsFollowUp(rq[r])
    /\ HasNoRecord(index, rq[r].user_id)
    /\ index # <<>>
    /\ similar[r] = <<>>

\* C22: the wait between the attempts of a request A suspends A only:
\* while A waits, every other request B that has arrived and not been
\* answered can take its next step (start, invoke the engine, store,
\* complete), and B's steps leave A's wait as it is.
C22_BackoffSuspendsOnlyItself ==
  /\ [](\A a, b \in Reqs :
          (a # b /\ Waiting(a) /\ pc[b] \in {"start", "engine", "upsert", "done"})
          => ENABLED RequestStep(b))
  /\ [][\A a, b \in Reqs :
          (a # b /\ Waiting(a) /\ pc'[b] # pc[b])
          => pc'[a] = pc[a] /\ attempt'[a] = attempt[a]]_vars

\* A is waiting for its second attempt while B, in its first attempt, has
\* invoked the engine, stored its record and been answered.
C22_Witness ==
  \E a, b \in Reqs :
    /\ a # b
    /\ Waiting(a) /\ attempt[a] = 2
    /\ pc[b] = "responded" /\ attempt[b] = 1
    /\ result[b] # <<>>
    /\ result[b][1].point_id \in DOMAIN index

\* ---------------------------------------------------------------------
\* Registration and login

\* A register call answered: the last response is register's.
RegisterAnswered(code) ==
  /\ auth_response # <<>>
  /\ auth_response[1].endpoint = "register"
  /\ auth_response[1].status_code = code

\* C23: under any interleaving of register calls, no two rows of the users
\* table share a username or an email; and a step of a register call that
\* creates no user (the table is no longer afterwards) leaves every row of
\* the table as it was. A step that creates one appends it and touches no
\* other row.
C23_UniqueUsers ==
  /\ [](\A i, j \in DOMAIN users :
          i # j => /\ users[i].username # users[j].username
                   /\ users[i].email # users[j].email)
  /\ [][/\ Len(users') = Len(users) => users' = users
        /\ Len(users') # Len(users) =>
             /\ Len(users') = Len(users) + 1
             /\ SubSeq(users', 1, Len(users)) = users
             /\ RegisterAnswered(201)']_vars

\* Two calls with the same username both passed the query; one committed,
\* the other's commit was refused and the table holds the name once.
C23_Witness ==
  /\ RegisterAnswered(500)
  /\ \E i \in DOMAIN users :
       /\ users[i].username = auth_response[1].form.username
       /\ users[i].email # auth_response[1].form.email

\* A step of a login call: the last response becomes login's, or a token is
\* issued.
LoginStep ==
  /\ auth_response' # <<>>
  /\ auth_response'[1].endpoint = "login"
  /\ (auth_response' # auth_response \/ tokens' # tokens)

\* The form names a user of the table who is active and whose stored hash
\* is the hash of the form's password.
Entitled(form) ==
  \E i \in DOMAIN users :
    /\ users[i].username = form.username
    /\ users[i].is_active
    /\ users[i].hashed_password = <<"bcrypt", form.password>>

\* C24 as stated: login returns a token only to an existing, active user
\* whose password verifies; every other login is answered 401 and issues no
\* token; login modifies no user.
C24_LoginOr401 ==
  [][LoginStep =>
       LET a == auth_response'[1]
       IN /\ users' = users
          /\ a.status_code = 200 =>
               /\ Entitled(a.form)
               /\ a.access_token # <<>>
          /\ a.status_code # 200 =>
               /\ a.status_code = 401
               /\ a.access_token = <<>>
               /\ tokens' = tokens]_vars

\* C24, amended: login returns a token only to an existing, active user
\* whose password verifies; every other login issues no token and is
\* answered 401 when the user is missing, inactive or the password wrong,
\* and 500 when the query raised; login modifies no user.
C24_LoginGuarded ==
  [][LoginStep =>
       LET a == auth_response'[1]
       IN /\ users' = users
          /\ a.status_code \in {200, 401, 500}
          /\ a.status_code = 200 =>
               /\ Entitled(a.form)
               /\ a.access_token # <<>>
               /\ \E t \in tokens' :
                    /\ t.access_token = a.access_token[1]
                    /\ users[t.issued_to].username = a.form.username
               /\ tokens' \ tokens \subseteq
                    {t \in tokens' : t.access_token = a.access_token[1]}
          /\ a.status_code = 401 => ~Entitled(a.form)
          /\ a.status_code # 200 =>
               /\ a.access_token = <<>>
               /\ tokens' = tokens]_vars

\* An inactive user gave the right password and was answered 401, after
\* another user's login had returned a token.
C24_Witness ==
  /\ auth_response # <<>>
  /\ auth_response[1].endpoint = "login"
  /\ auth_response[1].status_code = 401
  /\ \E i \in DOMAIN users :
       /\ users[i].username = auth_response[1].form.username
       /\ ~users[i].is_active
       /\ users[i].hashed_password = <<"bcrypt", auth_response[1].form.password>>
  /\ tokens # {}

\* ---------------------------------------------------------------------
\* The storage services, POST /pdf/upload, startup and GET /health

\* Ticks the clock makes in one behaviour, and operations that add a file.
MaxClock == 2
MaxUploads == 2

\* datetime.now() is read to the tick; strftime('%Y%m%d_%H%M%S') keeps
\* whole seconds.
TicksPerSecond == 2
DaySeconds == 86400
Strftime(t) ==
  LET sec == t \div TicksPerSecond
  IN CASE sec = 0 -> "20250101_000000"
       [] sec = 1 -> "20250101_000001"
       [] OTHER -> "20250101_000002"

StorageUsers == {1, 2}
FileNames == {"a.pdf", "b.txt"}
Contents == {"", "x"}

\* f"{timestamp}_{file.filename}", and the directory name str(user_id);
\* names are sequences of their pieces, so that only equal strings are
\* equal.
SafeFilename(t, filename) == <<Strftime(t), "_", filename>>
UserDir(user_id) == <<Str(user_id)>>

\* os.path.join(base_dir, str(user_id), filename)
LocalPath(user_id, filename) == <<"uploads", UserDir(user_id), filename>>

\* The path delete_file builds (line 67).
DeleteFilePathOfName(filename, user_id) == <<"uploads", filename, filename>>
DeleteFilePath(filename, user_id) == LocalPath(user_id, filename)

\* A file that was uploaded long before the application last started.
OldMtime == 0 - 31 * DaySeconds * TicksPerSecond
OldFile ==
  [path |-> LocalPath(2, <<"20241201_000000", "_", "old.pdf">>),
   content |-> "x", mtime |-> OldMtime]

\* Writing a file at a path replaces what the path held.
WriteFile(fs, path, content, mtime) ==
  {f \in fs : f.path # path} \cup
    {[path |-> path, content |-> content, mtime |-> mtime]}
Exists(fs, path) == \E f \in fs : f.path = path

\* LocalStorageService.list_user_files: the filenames in the user's
\* directory.
ListUserFiles(fs, user_id) ==
  {f.path[3] : f \in {g \in fs : g.path[2] = UserDir(user_id)}}

Tick ==
  /\ now < MaxClock
  /\ now' = now + 1
  /\ UNCHANGED <<agentvars, authvars, files, bucket, uploads, op_result,
                 session_local, health>>

\* LocalStorageService.upload_file: the file is written under the user's
\* directory and its file_info returned; None when writing raised.
UploadFile(user_id, filename, content, written) ==
  /\ Len(uploads) < MaxUploads
  /\ LET safe_filename == SafeFilename(now, filename)
         file_path == LocalPath(user_id, safe_filename)
         file_info == [service |-> "local", user |-> UserDir(user_id),
                       filename |-> safe_filename,
                       original_name |-> filename, path |-> file_path]
     IN IF written
        THEN /\ files' = WriteFile(files, file_path, content, now)
             /\ uploads' = Append(uploads, file_info)
             /\ op_result' = <<[op |-> "upload_file", path |-> file_path,
                                returned |-> <<file_info>>]>>
        ELSE /\ UNCHANGED <<files, uploads>>
             /\ op_result' = <<[op |-> "upload_file", path |-> file_path,
                                returned |-> <<>>]>>
  /\ UNCHANGED <<agentvars, authvars, bucket, now, session_local, health>>

\* LocalStorageService.delete_file: True when the file was there and was
\* removed, False otherwise.
DeleteFile(filename, user_id) ==
  /\ LET file_path == DeleteFilePath(filename, user_id)
     IN IF Exists(files, file_path)
        THEN /\ files' = {f \in files : f.path # file_path}
             /\ op_result' = <<[op |-> "delete_file", filename |-> filename,
                                user_id |-> user_id, returned |-> TRUE]>>
        ELSE /\ files' = files
             /\ op_result' = <<[op |-> "delete_file", filename |-> filename,
                                user_id |-> user_id, returned |-> FALSE]>>
  /\ UNCHANGED <<agentvars, authvars, bucket, now, uploads, session_local,
                 health>>

\* LocalStorageService.cleanup_old_files(days): the scan removes the files
\* modified before the cutoff, counting them, and returns the count; an
\* exception raised during the scan (a directory that cannot be listed, a
\* file that vanished before getmtime) ends it after the files in
\* 'removed' have gone, and 0 is returned.
CleanupOldFiles(days, interrupted, removed) ==
  /\ LET cutoff_date == now - days * DaySeconds * TicksPerSecond
         old == {f \in files : f.mtime < cutoff_date}
     IN /\ removed \subseteq old
        /\ ~interrupted => removed = old
        /\ files' = files \ removed
        /\ op_result' = <<[op |-> "cleanup_old_files",
                           cutoff |-> cutoff_date,
                           removed |-> removed,
                           returned |-> IF interrupted THEN 0
                                        ELSE Cardinality(removed)]>>
  /\ UNCHANGED <<agentvars, authvars, bucket, now, uploads, session_local,
                 health>>

\* The object paths of SupabaseStorageService: upload_file(file, filename)
\* builds users/{filename}/{safe_filename}; delete_file(filename) and
\* get_file_url(filename) build users/{filename}/{filename}.
ObjectPath(owner, safe_filename) == <<"users", owner, safe_filename>>
ObjectPathOfName(filename) == <<"users", filename, filename>>

\* What can meet an upload to Supabase: nothing, missing credentials, a
\* bucket that is not there, a read that raises, a refused HTTP upload.
UploadFaults ==
  {"none", "no_credentials", "no_bucket", "read_failed", "http_failed"}

\* The ValueError upload_file raises inside its try block, <<>> when it
\* raises none (lines 61-82, 113-116).
UploadValueError(content, fault) ==
  CASE fault = "no_bucket" -> <<"Error checking bucket existence">>
    [] fault = "read_failed" -> <<"Error reading file">>
    [] fault = "none" /\ content = "" -> <<"Error reading file: File content is empty">>
    [] fault = "http_failed" /\ content # "" -> <<"HTTP Upload Failed">>
    [] fault = "http_failed" /\ content = "" -> <<"Error reading file: File content is empty">>
    [] OTHER -> <<>>

\* SupabaseStorageService.upload_file(file, filename): file_info, or None
\* (<<>>): the handler of lines 159-161 turns every exception into None.
SupabaseFileInfo(owner, filename, content, fault) ==
  IF fault = "no_credentials" \/ UploadValueError(content, fault) # <<>>
  THEN <<>>
  ELSE <<[service |-> "supabase", user |-> owner,
          filename |-> SafeFilename(now, filename),
          original_name |-> filename,
          path |-> ObjectPath(owner, SafeFilename(now, filename))]>>

\* filename.lower().endswith('.pdf')
EndsWithPdf(filename) == filename \in {"a.pdf"}

\* POST /pdf/upload: 400 for a name that is not a PDF's; else the file goes
\* to storage_service.upload_file(file, 1); None from the service raises
\* HTTPException(500) inside the inner try, whose 'except Exception'
\* answers 500. 'except ValueError' (400) is met by no ValueError, since the
\* service raises none.
PdfUpload(filename, content, fault) ==
  /\ Len(uploads) < MaxUploads
  /\ LET file_info == SupabaseFileInfo(UserDir(1), filename, content, fault)
         call == [filename |-> filename, content |-> content, fault |-> fault]
     IN IF ~EndsWithPdf(filename)
        THEN /\ op_result' = <<[op |-> "POST /pdf/upload", call |-> call,
                                status_code |-> 400,
                                detail |-> "Only PDF files are allowed"]>>
             /\ UNCHANGED <<bucket, uploads>>
        ELSE IF file_info = <<>>
        THEN /\ op_result' = <<[op |-> "POST /pdf/upload", call |-> call,
                                status_code |-> 500,
                                detail |-> "Storage service error"]>>
             /\ UNCHANGED <<bucket, uploads>>
        ELSE /\ bucket' = WriteFile(bucket, file_info[1].path, content, now)
             /\ uploads' = Append(uploads, file_info[1])
             /\ op_result' = <<[op |-> "POST /pdf/upload", call |-> call,
                                status_code |-> 200,
                                detail |-> "File uploaded successfully"]>>
  /\ UNCHANGED <<agentvars, authvars, files, now, session_local, health>>

\* The filenames a client knows: those upload_file has returned.
ReturnedFilenames == {uploads[i].filename : i \in DOMAIN uploads}

\* SupabaseStorageService.delete_file(filename): remove([file_path]) takes
\* the object at file_path away when there is one, and True is returned.
SupabaseDeleteFile(filename) ==
  /\ LET file_path == ObjectPathOfName(filename)
     IN /\ bucket' = {f \in bucket : f.path # file_path}
        /\ op_result' = <<[op |-> "supabase.delete_file",
                           filename |-> filename, path |-> file_path,
                           returned |-> TRUE]>>
  /\ UNCHANGED <<agentvars, authvars, files, now, uploads, session_local,
                 health>>

\* SupabaseStorageService.get_file_url(filename): the public URL of
\* file_path.
SupabaseGetFileUrl(filename) ==
  /\ op_result' = <<[op |-> "supabase.get_file_url",
                     filename |-> filename,
                     path |-> ObjectPathOfName(filename),
                     returned |-> TRUE]>>
  /\ UNCHANGED <<agentvars, authvars, files, bucket, now, uploads,
                 session_local, health>>

\* startup_event: init_db() binds SessionLocal to a sessionmaker; when it
\* raises, the exception is logged and SessionLocal stays None.
Startup(init_ok) ==
  /\ session_local = "unset"
  /\ session_local' = IF init_ok THEN "sessionmaker" ELSE "None"
  /\ UNCHANGED <<agentvars, authvars, files, bucket, now, uploads, op_result,
                 health>>

\* health_check, lines 66-79.
InitialHealthStatus ==
  [status |-> "healthy", database |-> "unknown", storage |-> "unknown"]

\* health_check, lines 81-89: next(get_db()) and SELECT 1; calling a
\* SessionLocal of None raises TypeError, an unreachable database raises
\* too.
CheckDatabase(health_status, db_up) ==
  IF session_local = "sessionmaker" /\ db_up
  THEN [health_status EXCEPT !.database = "healthy"]
  ELSE [health_status EXCEPT !.database = "unhealthy", !.status = "unhealthy"]

\* health_check, lines 91-124: a file is written under UPLOAD_DIR, read
\* back and removed.
CheckStorageQuietly(health_status, storage_ok) ==
  IF storage_ok
  THEN [health_status EXCEPT !.storage = "healthy"]
  ELSE [health_status EXCEPT !.storage = "unhealthy"]
CheckStorage(health_status, storage_ok) ==
  IF storage_ok
  THEN [health_status EXCEPT !.storage = "healthy"]
  ELSE [health_status EXCEPT !.storage = "unhealthy", !.status = "unhealthy"]

\* GET /health, served once startup has run: both checks run, each inside
\* its own try/except, and health_status is returned. The model keeps what
\* the checks met next to the answer.
HealthCheck(db_up, storage_ok) ==
  /\ session_local # "unset"
  /\ health' =
       <<[returned |-> CheckStorage(CheckDatabase(InitialHealthStatus, db_up),
                                    storage_ok),
          database_ok |-> (session_local = "sessionmaker" /\ db_up),
          storage_ok |-> storage_ok]>>
  /\ UNCHANGED <<agentvars, authvars, files, bucket, now, uploads, op_result,
                 session_local>>

NextService ==
  \/ Tick
  \/ \E u \in StorageUsers, n \in FileNames, c \in Contents, w \in BOOLEAN :
       UploadFile(u, n, c, w)
  \/ \E n \in ReturnedFilenames \cup {OldFile.path[3]}, u \in StorageUsers :
       DeleteFile(n, u)
  \/ \E days \in {0, 30}, i \in BOOLEAN, removed \in SUBSET files :
       CleanupOldFiles(days, i, removed)
  \/ \E n \in FileNames, c \in Contents, f \in UploadFaults : PdfUpload(n, c, f)
  \/ \E n \in ReturnedFilenames : SupabaseDeleteFile(n)
  \/ \E n \in ReturnedFilenames : SupabaseGetFileUrl(n)
  \/ \E ok \in BOOLEAN : Startup(ok)
  \/ \E d \in BOOLEAN, s \in BOOLEAN : HealthCheck(d, s)

\* The upload directory survives restarts: at construction it is empty or
\* holds a file uploaded long ago.
InitService ==
  /\ index = PriorIndex(0)
  /\ pc = [r \in Reqs |-> "idle"]
  /\ rq = [r \in Reqs |-> NoRequest]
  /\ attempt = [r \in Reqs |-> 0]
  /\ similar = [r \in Reqs |-> <<>>]
  /\ prev = [r \in Reqs |-> <<>>]
  /\ engine = [r \in Reqs |-> "none"]
  /\ pend = [r \in Reqs |-> <<>>]
  /\ result = [r \in Reqs |-> <<>>]
  /\ faults = 0
  /\ outcome = [r \in Reqs |-> <<>>]
  /\ response = [r \in Reqs |-> <<>>]
  /\ text_history = <<>>
  /\ users = <<>>
  /\ tokens = {}
  /\ resolved = <<>>
  /\ reg = [c \in RegCalls |-> <<>>]
  /\ auth_response = <<>>
  /\ files \in {{}, {OldFile}}
  /\ bucket = {}
  /\ now = 0
  /\ uploads = <<>>
  /\ op_result = <<>>
  /\ session_local = "unset"
  /\ health = <<>>

SpecService == InitService /\ [][NextService]_vars

\* C25: the filename upload_file generates is unique per upload: no two
\* uploads that returned a file_info were given the same path, whether
\* they came in the same second or not, so neither overwrote the other.
C25_FilenameUniquePerUpload ==
  \A i, j \in DOMAIN uploads :
    i # j => uploads[i].path # uploads[j].path

\* C26: cleanup_old_files returns the number of files it deleted, in every
\* outcome, an interrupted scan included; and the files it deleted were all
\* last modified before the cutoff.
C26_CleanupReturnsDeleted ==
  (op_result # <<>> /\ op_result[1].op = "cleanup_old_files") =>
    /\ op_result[1].returned = Cardinality(op_result[1].removed)
    /\ \A f \in op_result[1].removed : f.mtime < op_result[1].cutoff

\* The storage service rejected the upload for a validation reason: the
\* bucket is missing, the read failed or the content is empty.
ValidationRejected(call) ==
  /\ EndsWithPdf(call.filename)
  /\ \/ call.fault \in {"no_bucket", "read_failed"}
     \/ call.fault = "none" /\ call.content = ""

\* C27: an upload the storage service rejects for a validation reason is
\* answered 400 with that reason by POST /pdf/upload, and 500 answers only
\* failures that are not validation failures.
C27_ValidationAnswered400 ==
  (op_result # <<>> /\ op_result[1].op = "POST /pdf/upload") =>
    /\ ValidationRejected(op_result[1].call) =>
         /\ op_result[1].status_code = 400
         /\ <<op_result[1].detail>> =
              UploadValueError(op_result[1].call.content, op_result[1].call.fault)
    /\ op_result[1].status_code = 500 => ~ValidationRejected(op_result[1].call)

\* C28: delete_file and get_file_url of the Supabase service, given the
\* filename an upload returned, address the object path the upload wrote.
C28_SamePathAddressed ==
  (op_result # <<>>
     /\ op_result[1].op \in {"supabase.delete_file", "supabase.get_file_url"}) =>
    \A i \in DOMAIN uploads :
      (uploads[i].service = "supabase"
         /\ uploads[i].filename = op_result[1].filename) =>
        op_result[1].path = uploads[i].path

\* A step of LocalStorageService.delete_file.
DeleteStep ==
  /\ op_result' # <<>>
  /\ op_result'[1].op = "delete_file"
  /\ (op_result' # op_result \/ files' # files)

C30_HealthReflectsChecks ==
  /\ session_local # "unset" =>
       \A d, s \in BOOLEAN : ENABLED HealthCheck(d, s)
  /\ health # <<>> =>
       LET h == health[1]
       IN /\ h.returned.status \in {"healthy", "unhealthy"}
          /\ h.returned.status = "healthy" <=> (h.database_ok /\ h.storage_ok)
          /\ h.returned.database = IF h.database_ok THEN "healthy" ELSE "unhealthy"
          /\ h.returned.storage = IF h.storage_ok THEN "healthy" ELSE "unhealthy"
          /\ session_local = "None" => ~h.database_ok

\* init_db failed at startup; the storage check succeeded: the answer is
\* "unhealthy", with the database "unhealthy" and the storage "healthy".
C30_Witness ==
  /\ session_local = "None"
  /\ health # <<>>
  /\ health[1].storage_ok
  /\ health[1].returned =
       [status |-> "unhealthy", database |-> "unhealthy", storage |-> "healthy"]

====
